---- MODULE Spec2Model ----
(***************************************************************************)
(* Model of libcst/helpers/_template.py (template mangling, parsing,       *)
(* substitution and checking) and of                                       *)
(* libcst/codemod/visitors/_gather_comments.py (GatherCommentsVisitor).    *)
(*                                                                         *)
(* A Python str is a sequence of one-character strings.  A CST node is a   *)
(* record [type, value, children, id]; id stands for the identity of the   *)
(* Python object (what `is` compares).                                     *)
(***************************************************************************)
EXTENDS Integers, Sequences, FiniteSets, TLC

VARIABLES
    pc,             \* position of the running call
    driver,         \* which entry point was called
    arg_template,   \* the template argument of the driver, as the caller gave it
    replacements,   \* **template_replacements: name -> node
    template,       \* mangle_template's (rebound) parameter `template`
    todo,           \* variables the loop of mangle_template has still to visit
    source,         \* the string mangle_template returned
    tree,           \* the parser's result
    new_tree,       \* the result of unmangle_nodes
    error,          \* the kind of the exception raised, "" when none
    error_var,      \* the variable an error message names
    parsed,         \* TRUE once the parser has been invoked
    next_id,        \* the next unused object identity
    lines,          \* GatherCommentsVisitor: the visited module, one entry per line
    comment_regex,  \* GatherCommentsVisitor: the pattern
    visited,        \* GatherCommentsVisitor: number of lines already traversed
    comments        \* GatherCommentsVisitor.comments

vars == <<pc, driver, arg_template, replacements, template, todo, source, tree,
          new_tree, error, error_var, parsed, next_id, lines, comment_regex,
          visited, comments>>

templateVars == <<pc, driver, arg_template, replacements, template, todo, source,
                  tree, new_tree, error, error_var, parsed, next_id>>
gatherVars == <<lines, comment_regex, visited, comments>>

(***************************************************************************)
(* Bounds                                                                  *)
(***************************************************************************)
MaxChunks == 3
MaxLines == 3

(***************************************************************************)
(* Python str operations                                                   *)
(***************************************************************************)
\* s[i : i + len(sub)] == sub, i counted from 1
MatchAt(s, sub, i) == \A k \in 1..Len(sub) : s[i + k - 1] = sub[k]

\* `sub in s`
Contains(s, sub) == \E i \in 1..(Len(s) - Len(sub) + 1) : MatchAt(s, sub, i)

Least(S) == CHOOSE i \in S : \A j \in S : i <= j

\* s.find(sub) + 1: the 1-based index of the first occurrence, 0 when absent
Find(s, sub) ==
    LET hits == {i \in 1..(Len(s) - Len(sub) + 1) : MatchAt(s, sub, i)} IN
    IF hits = {} THEN 0 ELSE Least(hits)

\* s.replace(old, new), old non-empty: leftmost non-overlapping occurrences
RECURSIVE Replace(_, _, _)
Replace(s, old, new) ==
    LET i == Find(s, old) IN
    IF i = 0 THEN s
    ELSE SubSeq(s, 1, i - 1) \o new
         \o Replace(SubSeq(s, i + Len(old), Len(s)), old, new)

\* s.split(sep, 1): one or two pieces
Split1(s, sep) ==
    LET i == Find(s, sep) IN
    IF i = 0 THEN <<s>>
    ELSE <<SubSeq(s, 1, i - 1), SubSeq(s, i + Len(sep), Len(s))>>

StartsWith(s, p) == Len(p) <= Len(s) /\ SubSeq(s, 1, Len(p)) = p

EndsWith(s, p) == Len(p) <= Len(s) /\ SubSeq(s, Len(s) - Len(p) + 1, Len(s)) = p

RECURSIVE Flatten(_)
Flatten(ss) == IF ss = <<>> THEN <<>> ELSE Head(ss) \o Flatten(Tail(ss))

\* every concatenation of at most n pieces drawn from chunks
Concatenations(chunks, n) ==
    { Flatten(cs) : cs \in UNION { [1..k -> chunks] : k \in 0..n } }

(***************************************************************************)
(* _template.py: sentinels and mangle_template                             *)
(***************************************************************************)
TEMPLATE_PREFIX ==
    <<"_","_","L","I","B","C","S","T","_","M","A","N","G","L","E","D","_",
      "N","A","M","E","_">>

TEMPLATE_SUFFIX ==
    <<"_","E","M","A","N","_","D","E","L","G","N","A","M","_","T","S","C","B",
      "I","L","_","_">>

mangled_name(var) == TEMPLATE_PREFIX \o var \o TEMPLATE_SUFFIX

\* f"{{{var}}}"
original(var) == <<"{">> \o var \o <<"}">>

ReservedCheckPrefixOnly(t) == Contains(t, TEMPLATE_PREFIX)

\* line 23: TEMPLATE_PREFIX in template or TEMPLATE_SUFFIX in template
HasReserved(t) == Contains(t, TEMPLATE_PREFIX) \/ Contains(t, TEMPLATE_SUFFIX)


(***************************************************************************)
(* CST nodes.  id is the identity of the Python object.                    *)
(***************************************************************************)
Node(type, value, children) ==
    [type |-> type, value |-> value, children |-> children, id |-> 0]

Name(value) == Node("Name", value, <<>>)
SimpleString(value) == Node("SimpleString", value, <<>>)
BinaryOperation(left, right) == Node("BinaryOperation", <<"+">>, <<left, right>>)
UnaryOperation(expression) == Node("UnaryOperation", <<"+">>, <<expression>>)
SetNode(element) == Node("Set", <<>>, <<element>>)
Expr(value) == Node("Expr", <<>>, <<value>>)
SimpleStatementLine(body) == Node("SimpleStatementLine", <<>>, body)
Module(body) == Node("Module", <<>>, body)

NoNode == Node("None", <<>>, <<>>)

\* isinstance(node, cst.BaseExpression)
IsBaseExpression(node) ==
    node.type \in {"Name", "SimpleString", "BinaryOperation", "UnaryOperation", "Set"}

\* isinstance(node, (cst.SimpleStatementLine, cst.BaseCompoundStatement))
IsStatement(node) == node.type \in {"SimpleStatementLine"}

RECURSIVE Size(_)
Size(node) ==
    LET RECURSIVE SizeSeq(_)
        SizeSeq(cs) == IF cs = <<>> THEN 0 ELSE Size(Head(cs)) + SizeSeq(Tail(cs))
    IN 1 + SizeSeq(node.children)

\* a copy of the tree made of new objects, numbered from base in preorder
RECURSIVE Renumber(_, _)
Renumber(node, base) ==
    LET RECURSIVE RenumberSeq(_, _)
        RenumberSeq(cs, b) ==
            IF cs = <<>> THEN <<>>
            ELSE <<Renumber(Head(cs), b)>> \o RenumberSeq(Tail(cs), b + Size(Head(cs)))
    IN [node EXCEPT !.id = base, !.children = RenumberSeq(node.children, base + 1)]

\* CSTNode.deep_clone(): structurally equal, every node a new object
deep_clone(node, fresh) == Renumber(node, fresh)

\* the tree without object identities: what deep_equals compares
RECURSIVE Strip(_)
Strip(node) ==
    [node EXCEPT !.id = 0,
                 !.children = [i \in 1..Len(node.children) |-> Strip(node.children[i])]]

\* every node of the tree, in preorder
RECURSIVE Nodes(_)
Nodes(node) ==
    LET RECURSIVE NodesSeq(_)
        NodesSeq(cs) == IF cs = <<>> THEN <<>> ELSE Nodes(Head(cs)) \o NodesSeq(Tail(cs))
    IN <<node>> \o NodesSeq(node.children)

Ids(node) == { Nodes(node)[i].id : i \in 1..Len(Nodes(node)) }

(***************************************************************************)
(* The parser (libcst.parse_module, parse_statement, parse_expression) on  *)
(* the fragment of Python the templates below are written in: names,       *)
(* double-quoted strings, set displays, unary and binary plus.             *)
(***************************************************************************)
Token(kind, text) == [kind |-> kind, text |-> text]

IsNameChar(c) == c \notin {" ", "+", "\"", "\n", "{", "}"}

\* the length of the longest prefix of s made of name characters
NameLen(s) ==
    LET stops == {i \in 1..Len(s) : ~IsNameChar(s[i])} IN
    IF stops = {} THEN Len(s) ELSE Least(stops) - 1

RECURSIVE Tokenize(_)
Tokenize(s) ==
    IF s = <<>> THEN <<>>
    ELSE LET c == Head(s) IN
         CASE c = " " -> Tokenize(Tail(s))
           [] c = "+" -> <<Token("PLUS", <<c>>)>> \o Tokenize(Tail(s))
           [] c = "{" -> <<Token("LBRACE", <<c>>)>> \o Tokenize(Tail(s))
           [] c = "}" -> <<Token("RBRACE", <<c>>)>> \o Tokenize(Tail(s))
           [] c = "\n" -> <<Token("NEWLINE", <<c>>)>> \o Tokenize(Tail(s))
           [] c = "\"" ->
                LET j == Find(Tail(s), <<"\"">>) IN
                IF j = 0 \/ Contains(SubSeq(s, 1, j + 1), <<"\n">>)
                THEN <<Token("ERROR", s)>>
                ELSE <<Token("STRING", SubSeq(s, 1, j + 1))>>
                     \o Tokenize(SubSeq(s, j + 2, Len(s)))
           [] OTHER ->
                LET n == NameLen(s) IN
                <<Token("NAME", SubSeq(s, 1, n))>> \o Tokenize(SubSeq(s, n + 1, Len(s)))

ParseResult(ok, node, rest) == [ok |-> ok, node |-> node, rest |-> rest]
ParseFailure == ParseResult(FALSE, NoNode, <<>>)

RECURSIVE ParseAtom(_), ParseExpression(_), ParseOperands(_, _)
\* atom: NAME | STRING | "+" atom | "{" expression "}"
ParseAtom(toks) ==
    IF toks = <<>> THEN ParseFailure
    ELSE LET t == Head(toks) IN
         CASE t.kind = "NAME" -> ParseResult(TRUE, Name(t.text), Tail(toks))
           [] t.kind = "STRING" -> ParseResult(TRUE, SimpleString(t.text), Tail(toks))
           [] t.kind = "PLUS" ->
                LET r == ParseAtom(Tail(toks)) IN
                IF r.ok THEN ParseResult(TRUE, UnaryOperation(r.node), r.rest)
                ELSE ParseFailure
           [] t.kind = "LBRACE" ->
                LET r == ParseExpression(Tail(toks)) IN
                IF r.ok /\ r.rest # <<>> /\ Head(r.rest).kind = "RBRACE"
                THEN ParseResult(TRUE, SetNode(r.node), Tail(r.rest))
                ELSE ParseFailure
           [] OTHER -> ParseFailure

\* expression: atom ("+" atom)*, left associative
ParseOperands(left, toks) ==
    IF toks # <<>> /\ Head(toks).kind = "PLUS"
    THEN LET r == ParseAtom(Tail(toks)) IN
         IF r.ok THEN ParseOperands(BinaryOperation(left, r.node), r.rest)
         ELSE ParseFailure
    ELSE ParseResult(TRUE, left, toks)

ParseExpression(toks) ==
    LET a == ParseAtom(toks) IN
    IF a.ok THEN ParseOperands(a.node, a.rest) ELSE ParseFailure

\* lines of a module: blank lines, or one expression statement per line
RECURSIVE ParseLines(_)
ParseLines(toks) ==
    IF toks = <<>> THEN ParseResult(TRUE, Module(<<>>), <<>>)
    ELSE IF Head(toks).kind = "NEWLINE" THEN ParseLines(Tail(toks))
    ELSE LET r == ParseExpression(toks) IN
         IF r.ok /\ (r.rest = <<>> \/ Head(r.rest).kind = "NEWLINE")
         THEN LET m == ParseLines(r.rest) IN
              IF m.ok
              THEN ParseResult(TRUE,
                       Module(<<SimpleStatementLine(<<Expr(r.node)>>)>> \o m.node.children),
                       <<>>)
              ELSE ParseFailure
         ELSE ParseFailure

\* a line that starts with white space is an indentation error
Indented(s) == StartsWith(s, <<" ">>) \/ Contains(s, <<"\n", " ">>)

\* cst.parse_expression: one line, no leading or trailing white space
parse_expression(s) ==
    LET r == ParseExpression(Tokenize(s)) IN
    IF r.ok /\ r.rest = <<>> /\ ~StartsWith(s, <<" ">>) /\ ~EndsWith(s, <<" ">>)
    THEN r ELSE ParseFailure

\* cst.parse_statement: one statement; a missing trailing newline is added
parse_statement(s) ==
    LET text == IF EndsWith(s, <<"\n">>) THEN s ELSE s \o <<"\n">>
        r == ParseExpression(Tokenize(text))
    IN IF r.ok /\ Len(r.rest) = 1 /\ Head(r.rest).kind = "NEWLINE" /\ ~Indented(text)
       THEN ParseResult(TRUE, SimpleStatementLine(<<Expr(r.node)>>), <<>>)
       ELSE ParseFailure

\* cst.parse_module: any number of lines
parse_module(s) == IF Indented(s) THEN ParseFailure ELSE ParseLines(Tokenize(s))

(***************************************************************************)
(* _template.py: TemplateTransformer, TemplateChecker, unmangle_nodes      *)
(***************************************************************************)
\* TemplateTransformer.__init__: the replacements that are expressions
simple_replacements(template_replacements) ==
    [name \in {n \in DOMAIN template_replacements :
                   IsBaseExpression(template_replacements[n])}
        |-> template_replacements[name]]

unsupported_vars_none(template_replacements) == {}

\* TemplateTransformer.__init__: the variables that cannot be inserted
unsupported_vars(template_replacements) ==
    {name \in DOMAIN template_replacements :
        name \notin DOMAIN simple_replacements(template_replacements)}

Left(exc, node, cloned) == [exc |-> exc, node |-> node, cloned |-> cloned]

leave_Name_no_clone(updated_node, simple, fresh) ==
    LET value == updated_node.value IN
    IF Contains(value, TEMPLATE_PREFIX) /\ Contains(value, TEMPLATE_SUFFIX)
    THEN LET first == Split1(value, TEMPLATE_PREFIX)
             second == Split1(first[2], TEMPLATE_SUFFIX)
         IN IF Len(second) # 2 THEN Left("ValueError", updated_node, FALSE)
            ELSE IF first[1] # <<>> \/ second[2] # <<>>
                 THEN Left("", updated_node, FALSE)
            ELSE IF second[1] \notin DOMAIN simple
                 THEN Left("", updated_node, FALSE)
            ELSE Left("", simple[second[1]], FALSE)
    ELSE Left("", updated_node, FALSE)

\* TemplateTransformer.leave_Name.  The two-name unpacking of a split that
\* yields one piece raises ValueError.
leave_Name(updated_node, simple, fresh) ==
    LET value == updated_node.value IN
    IF Contains(value, TEMPLATE_PREFIX) /\ Contains(value, TEMPLATE_SUFFIX)
    THEN LET first == Split1(value, TEMPLATE_PREFIX)
             prefix == first[1]
             name_and_suffix == first[2]
             second == Split1(name_and_suffix, TEMPLATE_SUFFIX)
         IN IF Len(second) # 2 THEN Left("ValueError", updated_node, FALSE)
            ELSE LET name == second[1]
                     suffix == second[2]
                 IN IF prefix # <<>> \/ suffix # <<>>
                    THEN Left("", updated_node, FALSE)
                    ELSE IF name \notin DOMAIN simple
                    THEN Left("", updated_node, FALSE)
                    ELSE Left("", deep_clone(simple[name], fresh), TRUE)
    ELSE Left("", updated_node, FALSE)

Visited(exc, node, fresh) == [exc |-> exc, node |-> node, fresh |-> fresh]

\* tree.visit(unmangler): children first, left to right, then the leave_ method;
\* the node a leave_ method returns is not traversed again
RECURSIVE Visit(_, _, _), VisitChildren(_, _, _)
VisitChildren(cs, simple, fresh) ==
    IF cs = <<>> THEN Visited("", <<>>, fresh)
    ELSE LET h == Visit(Head(cs), simple, fresh) IN
         IF h.exc # "" THEN Visited(h.exc, <<>>, fresh)
         ELSE LET t == VisitChildren(Tail(cs), simple, h.fresh) IN
              Visited(t.exc, <<h.node>> \o t.node, t.fresh)

Visit(node, simple, fresh) ==
    LET c == VisitChildren(node.children, simple, fresh) IN
    IF c.exc # "" THEN Visited(c.exc, node, fresh)
    ELSE LET updated_node == [node EXCEPT !.children = c.node] IN
         IF node.type = "Name"
         THEN LET l == leave_Name(updated_node, simple, c.fresh) IN
              Visited(l.exc, l.node,
                      IF l.cloned THEN c.fresh + Size(l.node) ELSE c.fresh)
         ELSE Visited("", updated_node, c.fresh)

\* TemplateChecker.visit_Name over the tree, in traversal order: the variable
\* of the first Name whose value is a declared variable's mangled name
CheckerHits(node, template_vars) ==
    {i \in 1..Len(Nodes(node)) :
        /\ Nodes(node)[i].type = "Name"
        /\ \E var \in template_vars : Nodes(node)[i].value = mangled_name(var)}

TemplateChecker(node, template_vars) ==
    LET hits == CheckerHits(node, template_vars) IN
    IF hits = {} THEN [exc |-> "", var |-> <<>>]
    ELSE LET i == CHOOSE h \in hits : \A k \in hits : h <= k IN
         [exc |-> "not replaced properly",
          var |-> CHOOSE var \in template_vars :
                      Nodes(node)[i].value = mangled_name(var)]

(***************************************************************************)
(* Inputs of the calls                                                     *)
(***************************************************************************)
X == <<"x">>
Y == <<"y">>
\* a legal keyword name that is itself the mangled name of x
Q == mangled_name(X)

\* pieces the templates of the drivers are put together from
TemplateChunks ==
    {original(X), original(Y), <<"a">>, <<" ", "+", " ">>, <<"\"">>, <<"\n">>,
     TEMPLATE_PREFIX, TEMPLATE_SUFFIX}

Templates == Concatenations(TemplateChunks, MaxChunks)

\* the caller's nodes, each a distinct object
NodeA == Renumber(Name(<<"a">>), 1)
NodeSum == Renumber(BinaryOperation(Name(<<"a">>), SimpleString(<<"\"", "a", "\"">>)), 2)
NodeMangled == Renumber(Name(mangled_name(X)), 5)
NodeStatement == Renumber(SimpleStatementLine(<<Expr(Name(<<"a">>))>>), 6)
CallerNodes == {NodeA, NodeSum, NodeMangled, NodeStatement}
CallerIds == UNION {Ids(n) : n \in CallerNodes}
FirstFreeId == Cardinality(CallerIds) + 1

Mappings == UNION {[names -> CallerNodes] : names \in SUBSET {X, Y}}

\* pieces and names for direct calls of mangle_template
MangleChunks == {original(X), original(Y), <<"{">>, <<"}">>, <<"a">>, TEMPLATE_SUFFIX}
MangleVars == {X, Y, Q}

\* pieces the value of a Name handed to leave_Name is put together from
NameChunks ==
    {TEMPLATE_PREFIX, TEMPLATE_SUFFIX, X, <<"a">>,
     SubSeq(TEMPLATE_PREFIX, 1, Len(TEMPLATE_PREFIX) - 1),
     SubSeq(TEMPLATE_SUFFIX, 3, Len(TEMPLATE_SUFFIX))}

(***************************************************************************)
(* The calls, step by step                                                 *)
(***************************************************************************)
Raise(kind, var) ==
    /\ pc' = "raised"
    /\ error' = kind
    /\ error_var' = var

NoError == UNCHANGED <<error, error_var>>

StatementArgumentWithNewline(t) == IF EndsWith(t, <<"\n">>) THEN t ELSE t \o <<"\n">>

\* line 149: the first argument of mangle_template in parse_template_statement
StatementArgument(t) == t

\* lines 22-24: mangle_template is entered with (t, template_vars)
mangle_template(t, template_vars) ==
    /\ template' = t
    /\ todo' = template_vars
    /\ IF HasReserved(t)
       THEN Raise("reserved strings", <<>>)
       ELSE pc' = "mangle_loop" /\ NoError

Enter(d, t, r) ==
    /\ driver' = d
    /\ arg_template' = t
    /\ replacements' = r
    /\ UNCHANGED <<source, tree, new_tree, parsed, next_id>>
    /\ UNCHANGED gatherVars

\* lines 95-120
parse_template_module ==
    /\ pc = "idle"
    /\ \E t \in Templates, r \in Mappings :
          /\ Enter("module", t, r)
          /\ mangle_template(t, DOMAIN r)

\* lines 127-149
parse_template_statement ==
    /\ pc = "idle"
    /\ \E t \in Templates, r \in Mappings :
          /\ Enter("statement", t, r)
          /\ mangle_template(StatementArgument(t), DOMAIN r)

\* lines 162-184
parse_template_expression ==
    /\ pc = "idle"
    /\ \E t \in Templates, r \in Mappings :
          /\ Enter("expression", t, r)
          /\ mangle_template(t, DOMAIN r)

\* a direct call of mangle_template; the names are bound to no node
call_mangle_template ==
    /\ pc = "idle"
    /\ \E t \in Concatenations(MangleChunks, MaxChunks), template_vars \in SUBSET MangleVars :
          /\ Enter("mangle_template", t, [name \in template_vars |-> NoNode])
          /\ mangle_template(t, template_vars)

\* lines 26-32: one iteration of the loop over the set, in any order
mangle_template_iteration ==
    /\ pc = "mangle_loop"
    /\ \E var \in todo :
          IF ~Contains(template, original(var))
          THEN /\ Raise("missing a reference", var)
               /\ UNCHANGED <<template, todo>>
          ELSE /\ template' = Replace(template, original(var), mangled_name(var))
               /\ todo' = todo \ {var}
               /\ UNCHANGED pc
               /\ NoError
    /\ UNCHANGED <<driver, arg_template, replacements, source, tree, new_tree,
                   parsed, next_id>>
    /\ UNCHANGED gatherVars

\* line 33
mangle_template_return ==
    /\ pc = "mangle_loop"
    /\ todo = {}
    /\ source' = template
    /\ pc' = IF driver = "mangle_template" THEN "returned" ELSE "parse"
    /\ NoError
    /\ UNCHANGED <<driver, arg_template, replacements, template, todo, tree,
                   new_tree, parsed, next_id>>
    /\ UNCHANGED gatherVars

Parser(d, s) ==
    CASE d = "module" -> parse_module(s)
      [] d = "statement" -> parse_statement(s)
      [] OTHER -> parse_expression(s)

\* lines 121, 150, 185
parse ==
    /\ pc = "parse"
    /\ parsed' = TRUE
    /\ LET r == Parser(driver, source) IN
       IF r.ok
       THEN /\ tree' = Renumber(r.node, next_id)
            /\ next_id' = next_id + Size(r.node)
            /\ pc' = "unmangle"
            /\ NoError
       ELSE /\ Raise("parse", <<>>)
            /\ UNCHANGED <<tree, next_id>>
    /\ UNCHANGED <<driver, arg_template, replacements, template, todo, source, new_tree>>
    /\ UNCHANGED gatherVars

\* lines 85-89, with TemplateTransformer.__init__ (lines 37-54)
unmangle_nodes ==
    /\ pc = "unmangle"
    /\ IF unsupported_vars(replacements) # {}
       THEN /\ \E var \in unsupported_vars(replacements) : Raise("unsupported", var)
            /\ UNCHANGED <<new_tree, next_id>>
       ELSE LET v == Visit(tree, simple_replacements(replacements), next_id) IN
            IF v.exc # ""
            THEN /\ Raise(v.exc, <<>>)
                 /\ UNCHANGED <<new_tree, next_id>>
            ELSE /\ new_tree' = v.node
                 /\ next_id' = v.fresh
                 /\ pc' = "check"
                 /\ NoError
    /\ UNCHANGED <<driver, arg_template, replacements, template, todo, source, tree,
                   parsed>>
    /\ UNCHANGED gatherVars

\* what the driver requires of the substituted tree (lines 122, 152-157, 186-188)
ResultTypeOk(d, node) ==
    CASE d = "module" -> node.type = "Module"
      [] d = "statement" -> IsStatement(node)
      [] OTHER -> IsBaseExpression(node)

\* lines 122-124, 152-159, 186-190
check_and_return ==
    /\ pc = "check"
    /\ IF ~ResultTypeOk(driver, new_tree)
       THEN Raise("type", <<>>)
       ELSE LET c == TemplateChecker(new_tree, DOMAIN replacements) IN
            IF c.exc # "" THEN Raise(c.exc, c.var)
            ELSE pc' = "returned" /\ NoError
    /\ UNCHANGED <<driver, arg_template, replacements, template, todo, source, tree,
                   new_tree, parsed, next_id>>
    /\ UNCHANGED gatherVars

\* unmangle_nodes called on a tree of the caller's: a single Name
call_unmangle_nodes ==
    /\ pc = "idle"
    /\ driver' = "unmangle_nodes"
    /\ \E value \in Concatenations(NameChunks, MaxChunks),
          r \in UNION {[names -> {NodeA}] : names \in SUBSET {X}} :
          /\ replacements' = r
          /\ tree' = Renumber(Name(value), next_id)
    /\ next_id' = next_id + 1
    /\ pc' = "unmangle"
    /\ NoError
    /\ UNCHANGED <<arg_template, template, todo, source, new_tree, parsed>>
    /\ UNCHANGED gatherVars

InitTemplate ==
    /\ pc = "idle"
    /\ driver = ""
    /\ arg_template = <<>>
    /\ replacements = <<>>
    /\ template = <<>>
    /\ todo = {}
    /\ source = <<>>
    /\ tree = NoNode
    /\ new_tree = NoNode
    /\ error = ""
    /\ error_var = <<>>
    /\ parsed = FALSE
    /\ next_id = FirstFreeId

InitGatherIdle ==
    /\ lines = <<>>
    /\ comment_regex = <<>>
    /\ visited = 0
    /\ comments = <<>>

Init == InitTemplate /\ InitGatherIdle

\* the three drivers
Next ==
    \/ parse_template_module
    \/ parse_template_statement
    \/ parse_template_expression
    \/ mangle_template_iteration
    \/ mangle_template_return
    \/ parse
    \/ unmangle_nodes
    \/ check_and_return

Spec == Init /\ [][Next]_vars

\* mangle_template alone
NextMangle ==
    \/ call_mangle_template
    \/ mangle_template_iteration
    \/ mangle_template_return

SpecMangle == Init /\ [][NextMangle]_vars

\* the Rewriter alone, on one Name
NextName ==
    \/ call_unmangle_nodes
    \/ unmangle_nodes

SpecName == Init /\ [][NextName]_vars

(***************************************************************************)
(* _gather_comments.py: GatherCommentsVisitor                              *)
(*                                                                         *)
(* The visited module is a sequence of lines.  Line k holds either an      *)
(* EmptyLine node (a blank line or a standalone comment) or the            *)
(* TrailingWhitespace node of a statement (with or without an inline       *)
(* comment); PositionProvider gives a comment of line k the start line k.  *)
(***************************************************************************)
CommentTexts == {<<"#", "T">>, <<"#", "a">>, <<"#", "a", "#", "T">>}
Patterns == {<<"#", "T">>, <<"#">>}

TriviaNode(kind, has_comment, value) ==
    [kind |-> kind, has_comment |-> has_comment, value |-> value]

TriviaNodes ==
    {TriviaNode(kind, FALSE, <<>>) : kind \in {"EmptyLine", "TrailingWhitespace"}}
    \cup {TriviaNode(kind, TRUE, text) :
            kind \in {"EmptyLine", "TrailingWhitespace"}, text \in CommentTexts}

\* line 45: self._comment_matcher.match(comment.value), for a pattern that is
\* literal text: re.match matches at the start of the string only
CommentMatch(regex, value) == StartsWith(value, regex)

EffectiveLineSame(node, line) == line

\* lines 47-50: standalone comments refer to the next line
EffectiveLine(node, line) == IF node.kind = "EmptyLine" THEN line + 1 ELSE line

\* lines 40-51; the m.visit decorators call it for the nodes that hold a comment
visit_comment ==
    /\ visited < Len(lines)
    /\ lines[visited + 1].has_comment
    /\ LET node == lines[visited + 1]
           line == EffectiveLine(node, visited + 1)
       IN IF ~CommentMatch(comment_regex, node.value)
          THEN UNCHANGED comments
          ELSE comments' = [L \in DOMAIN comments \cup {line} |->
                               IF L = line THEN node.value ELSE comments[L]]
    /\ visited' = visited + 1
    /\ UNCHANGED <<lines, comment_regex>>
    /\ UNCHANGED templateVars

\* a node without a comment matches neither decorator
visit_other ==
    /\ visited < Len(lines)
    /\ ~lines[visited + 1].has_comment
    /\ visited' = visited + 1
    /\ UNCHANGED <<lines, comment_regex, comments>>
    /\ UNCHANGED templateVars

\* lines 31-38: the visitor as constructed, before it visits a module
InitGather ==
    /\ InitTemplate
    /\ lines \in UNION {[1..n -> TriviaNodes] : n \in 0..MaxLines}
    /\ comment_regex \in Patterns
    /\ visited = 0
    /\ comments = <<>>

NextGather == visit_comment \/ visit_other

SpecGather == InitGather /\ [][NextGather]_vars

(***************************************************************************)
(* Properties                                                              *)
(***************************************************************************)
Drivers == {"module", "statement", "expression"}
NL == <<"\n">>

\* some replacement value is not an expression
SomeUnsupported == \E n \in DOMAIN replacements : ~IsBaseExpression(replacements[n])

\* the raw template holds a sentinel
RawHasSentinel ==
    Contains(arg_template, TEMPLATE_PREFIX) \/ Contains(arg_template, TEMPLATE_SUFFIX)

\* the declared variables whose marker the raw template lacks
MissingMarkers == {v \in DOMAIN replacements : ~Contains(arg_template, original(v))}

\* the values of all nodes of a tree
Values(node) == {Nodes(node)[i].value : i \in 1..Len(Nodes(node))}

\* C1: whenever a driver returns a tree, no node of the tree holds the mangled
\* token of a declared variable (a placeholder that was not substituted always
\* ends in the "not replaced properly" error).
C1_NoMangledTokenSurvives ==
    (driver \in Drivers /\ pc = "returned") =>
        \A v \in Values(new_tree), var \in DOMAIN replacements :
            ~Contains(v, mangled_name(var))

\* C2 as claimed: with a non-expression value in the mapping the parser is
\* never invoked and no parse failure is reported.
C2_UnsupportedBeforeParse ==
    (driver \in Drivers /\ SomeUnsupported) => (~parsed /\ error # "parse")

\* C2 amended: with a non-expression value in the mapping the call never
\* substitutes and never returns; the "unsupported" error is raised after the
\* parser has run, exactly when mangling and parsing succeeded, and names a
\* variable bound to a non-expression; otherwise the reserved-string,
\* missing-reference or parse failure is the one reported.
C2_UnsupportedAfterParse ==
    (driver \in Drivers /\ SomeUnsupported) =>
        /\ pc \notin {"check", "returned"}
        /\ new_tree = NoNode
        /\ pc = "raised" =>
              /\ error \in {"reserved strings", "missing a reference", "parse",
                            "unsupported"}
              /\ error = "unsupported" <=> (parsed /\ tree # NoNode)
              /\ error = "unsupported" =>
                    /\ error_var \in DOMAIN replacements
                    /\ ~IsBaseExpression(replacements[error_var])
              /\ error = "parse" <=> (parsed /\ tree = NoNode)

C2_Witness ==
    /\ driver \in Drivers
    /\ pc = "raised"
    /\ error = "unsupported"
    /\ parsed
    /\ replacements[error_var] = NodeStatement

\* C3: parse_template_expression("{x}", x=N) returns a node structurally equal
\* to N, for every expression node N.
C3_RoundTrip ==
    (/\ driver = "expression"
     /\ arg_template = original(X)
     /\ DOMAIN replacements = {X}
     /\ IsBaseExpression(replacements[X])
     /\ pc \in {"raised", "returned"})
    => (pc = "returned" /\ Strip(new_tree) = Strip(replacements[X]))

\* the substitution sites: the Names of the parsed tree whose value is the
\* mangled name of a declared variable, each with the node now in its place
RECURSIVE Sites(_, _)
Sites(old, new) ==
    IF old.type = "Name"
    THEN IF \E var \in DOMAIN replacements : old.value = mangled_name(var)
         THEN <<[var |-> CHOOSE var \in DOMAIN replacements :
                            old.value = mangled_name(var),
                 node |-> new]>>
         ELSE <<>>
    ELSE LET RECURSIVE SitesSeq(_)
             SitesSeq(i) ==
                 IF i > Len(old.children) THEN <<>>
                 ELSE Sites(old.children[i], new.children[i]) \o SitesSeq(i + 1)
         IN SitesSeq(1)

\* C4: after substitution every site holds a deep copy of its bound node:
\* structurally equal to it, made of objects that are neither the caller's nor
\* shared with another site.
C4_CloneIndependence ==
    (driver \in Drivers /\ pc \in {"check", "returned"}) =>
        LET sites == Sites(tree, new_tree) IN
        \A i \in 1..Len(sites) :
            /\ Strip(sites[i].node) = Strip(replacements[sites[i].var])
            /\ Ids(sites[i].node) \cap CallerIds = {}
            /\ Cardinality(Ids(sites[i].node)) = Size(sites[i].node)
            /\ \A j \in 1..Len(sites) :
                  i # j => Ids(sites[i].node) \cap Ids(sites[j].node) = {}

C4_Witness ==
    /\ driver \in Drivers
    /\ pc = "returned"
    /\ DOMAIN replacements = {X, Y}
    /\ replacements[X] = NodeSum
    /\ replacements[Y] = NodeSum
    /\ Len(Sites(tree, new_tree)) = 2

\* C5: a raw template that holds a sentinel makes every driver fail with the
\* "reserved strings" error, whatever the mapping, before any marker is
\* replaced and before the parser is invoked.
C5_ReservedFirst ==
    (driver \in Drivers /\ RawHasSentinel) =>
        /\ pc = "raised"
        /\ error = "reserved strings"
        /\ template = arg_template
        /\ todo = DOMAIN replacements
        /\ ~parsed

C5_Witness ==
    /\ driver \in Drivers
    /\ pc = "raised"
    /\ error = "reserved strings"
    /\ Contains(arg_template, TEMPLATE_SUFFIX)
    /\ ~Contains(arg_template, TEMPLATE_PREFIX)
    /\ SomeUnsupported
    /\ MissingMarkers # {}

\* C6: on a template free of reserved strings mangle_template raises the
\* "missing reference" error exactly when some declared variable has no marker
\* in the original template, and the error names such a variable.
C6_MissingReference ==
    (/\ driver = "mangle_template"
     /\ pc \in {"raised", "returned"}
     /\ ~RawHasSentinel)
    => /\ error = "missing a reference" <=> MissingMarkers # {}
       /\ error = "missing a reference" => error_var \in MissingMarkers

\* the original template with every marker of a declared variable replaced by
\* the variable's mangled name, all at once, left to right
RECURSIVE MangledAtOnce(_, _)
MangledAtOnce(t, template_vars) ==
    LET present == {v \in template_vars : Contains(t, original(v))} IN
    IF present = {} THEN t
    ELSE LET first == Least({Find(t, original(v)) : v \in present})
             var == CHOOSE v \in present : Find(t, original(v)) = first
         IN SubSeq(t, 1, first - 1) \o mangled_name(var)
            \o MangledAtOnce(SubSeq(t, first + Len(original(var)), Len(t)),
                             template_vars)

\* C9: whenever mangle_template returns, in whatever order it visited the
\* variables, the string is the original template with each marker replaced by
\* the mangled name, and holds no marker of a declared variable.
C9_OrderIndependent ==
    (driver = "mangle_template" /\ pc = "returned") =>
        /\ source = MangledAtOnce(arg_template, DOMAIN replacements)
        /\ \A v \in DOMAIN replacements : ~Contains(source, original(v))

\* C8: leave_Name never raises; it returns a deep clone of mapping[name] when
\* the value is exactly PREFIX + name + SUFFIX with name a key of the mapping,
\* and the node unchanged in every other case.
C8_LeaveNameRule ==
    (driver = "unmangle_nodes" /\ pc \in {"raised", "check"}) =>
        /\ pc # "raised"
        /\ IF \E name \in DOMAIN replacements : tree.value = mangled_name(name)
           THEN /\ Strip(new_tree) = Strip(NodeA)
                /\ new_tree.id \notin CallerIds
           ELSE new_tree = tree

\* C10 as claimed: the text parse_template_statement hands to mangle_template
\* always ends with a line terminator.
C10_TerminatorBeforeMangling ==
    (driver = "statement" /\ pc # "idle") => EndsWith(template, NL)

\* C10 amended: parse_template_statement hands the template to mangle_template
\* as it is, and the mangled text handed to the parser ends with a line
\* terminator exactly when the template does.
C10_TemplatePassedAsGiven ==
    driver = "statement" =>
        /\ todo = DOMAIN replacements => template = arg_template
        /\ EndsWith(template, NL) <=> EndsWith(arg_template, NL)
        /\ parsed => (source = template
                      /\ (EndsWith(source, NL) <=> EndsWith(arg_template, NL)))

C10_Witness ==
    /\ driver = "statement"
    /\ pc = "returned"
    /\ DOMAIN replacements # {}
    /\ ~EndsWith(arg_template, NL)
    /\ ~EndsWith(source, NL)

\* C7: every key L of comments maps to a comment that matches the pattern and
\* is a visited standalone comment of line L - 1 or a visited inline comment
\* of line L; every visited matching standalone comment of line k has put key
\* k + 1, every visited matching inline comment of line k key k.
C7_EffectiveLines ==
    /\ \A L \in DOMAIN comments :
          /\ StartsWith(comments[L], comment_regex)
          /\ \E k \in 1..visited :
                /\ lines[k].has_comment
                /\ lines[k].value = comments[L]
                /\ \/ lines[k].kind = "EmptyLine" /\ k = L - 1
                   \/ lines[k].kind = "TrailingWhitespace" /\ k = L
    /\ \A k \in 1..visited :
          (lines[k].has_comment /\ StartsWith(lines[k].value, comment_regex)) =>
              /\ lines[k].kind = "EmptyLine" => (k + 1) \in DOMAIN comments
              /\ lines[k].kind = "TrailingWhitespace" => k \in DOMAIN comments

C7_Witness ==
    /\ visited = Len(lines)
    /\ Len(lines) = 3
    /\ comment_regex = <<"#", "T">>
    /\ lines[1] = TriviaNode("EmptyLine", TRUE, <<"#", "T">>)
    /\ lines[2] = TriviaNode("TrailingWhitespace", TRUE, <<"#", "a", "#", "T">>)
    /\ lines[3] = TriviaNode("TrailingWhitespace", TRUE, <<"#", "T">>)
    /\ DOMAIN comments = {2, 3}

====
